---------------------------- MODULE Spec2Model ----------------------------
(***************************************************************************)
(* Model of public-inbox-mcp (src/main.py): the patch classifier is_patch, *)
(* the thread walker retrieve_thread / walk_replies, the body extractor    *)
(* get_email_body, the thread renderer do_show_thread and the series       *)
(* finder do_find_threads, with the notmuch index as the environment.      *)
(*                                                                         *)
(* A Python str is a sequence of one-character strings, so that strip,     *)
(* upper, startswith, the substring test and the two regular expressions   *)
(* are computed character by character as the code computes them.          *)
(***************************************************************************)
EXTENDS Naturals, Sequences, FiniteSets, TLC

VARIABLES
    op,     \* the operation in progress ("none" between invocations)
    pc,     \* the position inside the operation
    arg,    \* the arguments of the invocation
    db,     \* the gateway: connections open now, opened so far, calls made
    local,  \* the local variables of the running function
    ret     \* the outcome: nothing yet, a returned value or a raised exception

vars == <<op, pc, arg, db, local, ret>>

--------------------------------------------------------------------------
(* Bounds of the model *)

\* longest subject body, in tokens, handed to is_patch
MaxTokens == 4
\* most messages in a thread
MaxMsgs == 4
\* most messages a filter matches
MaxStream == 3
\* most MIME parts of a message, the message itself included
MaxParts == 4

--------------------------------------------------------------------------
(* Python str primitives *)

LowerAlpha ==
    <<"a","b","c","d","e","f","g","h","i","j","k","l","m",
      "n","o","p","q","r","s","t","u","v","w","x","y","z">>

UpperAlpha ==
    <<"A","B","C","D","E","F","G","H","I","J","K","L","M",
      "N","O","P","Q","R","S","T","U","V","W","X","Y","Z">>

\* the characters str.strip() and the regex class \s remove
Whitespace == {" ", "\t", "\n", "\r"}

lower_char(c) ==
    IF \E i \in 1..26 : UpperAlpha[i] = c
    THEN LowerAlpha[CHOOSE i \in 1..26 : UpperAlpha[i] = c]
    ELSE c

upper_char(c) ==
    IF \E i \in 1..26 : LowerAlpha[i] = c
    THEN UpperAlpha[CHOOSE i \in 1..26 : LowerAlpha[i] = c]
    ELSE c

lower(s) == [i \in 1..Len(s) |-> lower_char(s[i])]

upper(s) == [i \in 1..Len(s) |-> upper_char(s[i])]

startswith(s, p) == Len(p) <= Len(s) /\ SubSeq(s, 1, Len(p)) = p

\* Python's  p in s
contains(s, p) ==
    \E i \in 1..(Len(s) + 1) :
        i + Len(p) - 1 <= Len(s) /\ SubSeq(s, i, i + Len(p) - 1) = p

\* s.strip(chars): the longest prefix and suffix made of chars are dropped
strip_chars(s, chars) ==
    LET keep == {i \in 1..Len(s) : s[i] \notin chars}
    IN  IF keep = {} THEN <<>>
        ELSE SubSeq(s, CHOOSE i \in keep : \A j \in keep : i <= j,
                       CHOOSE i \in keep : \A j \in keep : j <= i)

strip(s) == strip_chars(s, Whitespace)

--------------------------------------------------------------------------
(* Messages of the index.  A header is present with a value, or absent:    *)
(* notmuch2's Message.header raises LookupError for an absent header.      *)

Hdr(v) == [present |-> TRUE, value |-> v]

NoHdr == [present |-> FALSE, value |-> <<>>]

\* get_header: the value, '' for an absent or empty header
get_header(h) == IF h.present THEN h.value ELSE <<>>

--------------------------------------------------------------------------
(* The patch classifier *)

\* re.match(r'^\s*(re?|aw|fwd?):', subject, re.IGNORECASE)
ReplyAlternatives ==
    { <<"r">>, <<"r","e">>, <<"a","w">>, <<"f","w">>, <<"f","w","d">> }

reply_match(subject) ==
    \E k \in 0..Len(subject) :
        /\ \A i \in 1..k : subject[i] \in Whitespace
        /\ \E alt \in ReplyAlternatives :
              startswith(lower(SubSeq(subject, k + 1, Len(subject))),
                         alt \o <<":">>)

\* re.search(r'^\s*\[.*?PATCH.*?\]', subject, re.IGNORECASE): without
\* re.MULTILINE ^ matches at the start of the string only, and . matches
\* every character but a newline (brackets included)
patch_search(subject) ==
    \E k \in 0..Len(subject) :
        /\ \A i \in 1..k : subject[i] \in Whitespace
        /\ k + 1 <= Len(subject) /\ subject[k + 1] = "["
        /\ \E p \in (k + 2)..Len(subject) :
              /\ p + 4 <= Len(subject)
              /\ lower(SubSeq(subject, p, p + 4)) = <<"p","a","t","c","h">>
              /\ \A i \in (k + 2)..(p - 1) : subject[i] # "\n"
              /\ \E q \in (p + 5)..Len(subject) :
                    /\ subject[q] = "]"
                    /\ \A i \in (p + 5)..(q - 1) : subject[i] # "\n"

\* is_patch with the In-Reply-To check left out
is_patch_no_irt_check(message, toplevel_message_id) ==
    LET subject == get_header(message.subject)
    IN  IF reply_match(subject) THEN FALSE
        ELSE patch_search(subject)

\* is_patch with the pattern found anywhere in the subject (no ^\s*)
is_patch_unanchored(message, toplevel_message_id) ==
    LET in_reply_to ==
            strip_chars(strip(get_header(message.in_reply_to)), {"<", ">"})
        subject == get_header(message.subject)
    IN  /\ in_reply_to = toplevel_message_id
        /\ ~reply_match(subject)
        /\ \E k \in 0..Len(subject) :
              patch_search(SubSeq(subject, k + 1, Len(subject)))

is_patch(message, toplevel_message_id) ==
    LET in_reply_to ==
            strip_chars(strip(get_header(message.in_reply_to)), {"<", ">"})
        subject == get_header(message.subject)
    IN  IF in_reply_to # toplevel_message_id THEN FALSE
        ELSE IF reply_match(subject) THEN FALSE
        ELSE patch_search(subject)

--------------------------------------------------------------------------
(* Threads of the index.  A thread is a forest over the messages 1..n:     *)
(* parent[m] = 0 for a top-level message, and the index returns top-level  *)
(* messages and the replies of a message in increasing order of handle.    *)
(* msg[m] holds the headers Message.header reads from the mail file: the   *)
(* code never compares them with the position the index gave the message   *)
(* in the tree, so the model lets the two vary independently.              *)

Digit == <<"1","2","3","4","5","6","7","8","9">>

\* Message.messageid, without angle brackets
messageid(m) == <<"m", Digit[m]>>

RECURSIVE Ascending(_)
Ascending(S) ==
    IF S = {} THEN <<>>
    ELSE LET x == CHOOSE x \in S : \A y \in S : x <= y
         IN  <<x>> \o Ascending(S \ {x})

\* Thread.toplevel()
toplevel(thread) ==
    Ascending({m \in 1..thread.n : thread.parent[m] = 0})

\* Message.replies()
replies(thread, message) ==
    Ascending({m \in 1..thread.n : thread.parent[m] = message})

\* filter_func of retrieve_thread: None, or patch_filter closed over the
\* top-level message of the current iteration
FilterNone == [kind |-> "None", toplevel_message |-> 0]

patch_filter(toplevel_message) ==
    [kind |-> "patch_filter", toplevel_message |-> toplevel_message]

apply_filter(thread, filter_func, reply_message) ==
    is_patch(thread.msg[reply_message],
             messageid(filter_func.toplevel_message))

\* walk_replies that does not recurse below a reply it left out
RECURSIVE walk_replies_pruned(_, _, _)
walk_replies_pruned(thread, message, filter_func) ==
    LET rs == replies(thread, message)
        RECURSIVE loop(_)
        loop(i) ==
            IF i > Len(rs) THEN <<>>
            ELSE (IF filter_func.kind = "None"
                     \/ apply_filter(thread, filter_func, rs[i])
                  THEN <<rs[i]>>
                       \o walk_replies_pruned(thread, rs[i], filter_func)
                  ELSE <<>>)
                 \o loop(i + 1)
    IN  loop(1)

\* walk_replies that lists the replies of a message before their own replies
RECURSIVE walk_replies_breadth(_, _, _)
walk_replies_breadth(thread, message, filter_func) ==
    LET rs == replies(thread, message)
        RECURSIVE own(_)
        own(i) ==
            IF i > Len(rs) THEN <<>>
            ELSE (IF filter_func.kind = "None"
                     \/ apply_filter(thread, filter_func, rs[i])
                  THEN <<rs[i]>> ELSE <<>>)
                 \o own(i + 1)
        RECURSIVE below(_)
        below(i) ==
            IF i > Len(rs) THEN <<>>
            ELSE walk_replies_breadth(thread, rs[i], filter_func)
                 \o below(i + 1)
    IN  own(1) \o below(1)

RECURSIVE walk_replies(_, _, _)
walk_replies(thread, message, filter_func) ==
    LET rs == replies(thread, message)
        RECURSIVE loop(_)
        loop(i) ==
            IF i > Len(rs) THEN <<>>
            ELSE (IF filter_func.kind = "None"
                     \/ apply_filter(thread, filter_func, rs[i])
                  THEN <<rs[i]>> ELSE <<>>)
                 \o walk_replies(thread, rs[i], filter_func)
                 \o loop(i + 1)
    IN  loop(1)

\* db.threads(f"thread:{thread_id}") answers with a thread, with no thread,
\* or raises; lookup is that answer
NoThread == [kind |-> "none"]

LookupRaises == [kind |-> "raise"]

Found(thread) == [kind |-> "thread", thread |-> thread]

retrieve_thread(lookup, all_messages) ==
    IF lookup.kind # "thread" THEN <<>>
    ELSE LET thread == lookup.thread
             tops == toplevel(thread)
             RECURSIVE loop(_)
             loop(i) ==
                 IF i > Len(tops) THEN <<>>
                 ELSE <<tops[i]>>
                      \o walk_replies(thread, tops[i],
                                      IF all_messages THEN FilterNone
                                      ELSE patch_filter(tops[i]))
                      \o loop(i + 1)
         IN  loop(1)

--------------------------------------------------------------------------
(* The state between invocations, and outcomes *)

Idle == [none |-> TRUE]

NoOutcome == [kind |-> "none"]

Return(v) == [kind |-> "return", value |-> v]

Raise(e) == [kind |-> "raise", exc |-> e]

DbClosed == [open |-> 0, opened |-> 0, calls |-> 0]

Init ==
    /\ op = "none"
    /\ pc = "idle"
    /\ arg = Idle
    /\ db = DbClosed
    /\ local = Idle
    /\ ret = NoOutcome

\* the invocation is over: the next one starts from a fresh process state
Finish ==
    /\ pc = "done"
    /\ op' = "none"
    /\ pc' = "idle"
    /\ arg' = Idle
    /\ db' = DbClosed
    /\ local' = Idle
    /\ ret' = NoOutcome

--------------------------------------------------------------------------
(* Inputs of is_patch *)

RECURSIVE Flatten(_)
Flatten(ts) == IF ts = <<>> THEN <<>> ELSE Head(ts) \o Flatten(Tail(ts))

SubjectPrefixes ==
    { <<>>,
      <<" ">>,
      <<"R","e",":"," ">>,
      <<" ","r","E",":">>,
      <<"R",":">>,
      <<"a","w",":">>,
      <<"F","w","d",":"," ">>,
      <<"F","W",":">>,
      <<"R","e"," ">> }

SubjectTokens ==
    { <<"[">>, <<"]">>, <<"P","A","T","C","H">>, <<"p","a","t","c","h">>,
      <<"x">> }

SubjectBodies ==
    { Flatten(ts) : ts \in UNION { [1..k -> SubjectTokens] : k \in 0..MaxTokens } }

Subjects == { p \o b : p \in SubjectPrefixes, b \in SubjectBodies }

InReplyTos ==
    { NoHdr,
      Hdr(<<"<","m","1",">">>),
      Hdr(<<" ","<","m","1",">","\n">>),
      Hdr(<<"<","m","2",">">>) }

PatchInputs ==
    { [in_reply_to |-> i, subject |-> sj] :
        i \in InReplyTos, sj \in {NoHdr} \cup { Hdr(x) : x \in Subjects } }

\* is_patch(message, toplevel_message_id), called on its own
IsPatchCall ==
    /\ pc = "idle"
    /\ \E m \in PatchInputs :
          /\ arg' = [message |-> m, toplevel_message_id |-> messageid(1)]
          /\ ret' = Return(is_patch(m, messageid(1)))
    /\ op' = "is_patch"
    /\ pc' = "done"
    /\ UNCHANGED <<db, local>>

NextPatch == IsPatchCall \/ Finish

SpecPatch == Init /\ [][NextPatch]_vars

--------------------------------------------------------------------------
(* The threads the index may hold *)

CoverLetter ==
    [in_reply_to |-> NoHdr,
     subject |-> Hdr(<<"[","P","A","T","C","H"," ","0","/","2","]">>)]

\* the headers of a reply: In-Reply-To names message 1, names message 2 or
\* is absent; the subject is a patch subject or a reply to one
ThreadMessages ==
    { [in_reply_to |-> Hdr(<<"<","m","1",">">>),
       subject |-> Hdr(<<"[","P","A","T","C","H"," ","1","/","2","]">>)],
      [in_reply_to |-> Hdr(<<"<","m","1",">">>),
       subject |-> Hdr(<<"R","e",":"," ","[","P","A","T","C","H"," ","1","/","2","]">>)],
      [in_reply_to |-> Hdr(<<"<","m","2",">">>),
       subject |-> Hdr(<<"[","P","A","T","C","H"," ","1","/","2","]">>)],
      [in_reply_to |-> NoHdr,
       subject |-> Hdr(<<"[","P","A","T","C","H"," ","1","/","2","]">>)] }

\* a forest over 1..n: a reply has a larger handle than its parent, so that
\* the reply tree is acyclic and every message has one parent; message 1,
\* always top-level, is a cover letter
Thread(n, pr, mg) ==
    [n |-> n,
     parent |-> [m \in 1..n |-> IF m = 1 THEN 0 ELSE pr[m]],
     msg |-> [m \in 1..n |-> IF m = 1 THEN CoverLetter ELSE mg[m]]]

\* what the gateway may answer during retrieve_thread besides a thread: no
\* thread, an exception from db.threads, an exception from replies() in
\* the walk
WalkRaises == [kind |-> "raise_in_walk"]

Failures == { NoThread, LookupRaises, WalkRaises }

--------------------------------------------------------------------------
(* The thread renderer: do_show_thread, behind show_thread and show_series *)

Separator == "--------------------------------------------------"

\* get_message_info, as the lines of the block
get_message_info(m) ==
    << "Message ID: m" \o Digit[m], "In-Reply-To: ", "From: ", "To: ",
       "Cc: ", "Subject: ", "Date: ", "Tags: ", "Body:", "body", Separator >>

\* '\n'.join(result), as the lines of the string: '' for an empty list
join_lines(result) == Flatten(result)

\* the handler of do_show_thread that lets the exception through
show_thread_reraise(e) == Raise(e)

\* except Exception as e: return f"Error: {e}"
show_thread_except(e) == Return(<<"Error: " \o e>>)

\* the exit of the with block that leaves the connection open
with_exit_leak(d) == d

\* Database.__exit__: the connection is closed
with_exit(d) == [d EXCEPT !.open = 0]

\* show_thread(thread_id) and show_series(thread_id)
ShowCall ==
    /\ pc = "idle"
    /\ \E all_messages \in BOOLEAN :
          arg' = [thread_id |-> "t1", all_messages |-> all_messages]
    /\ op' = "show_thread"
    /\ pc' = "open"
    /\ local' = [lookup |-> [kind |-> "pending"], messages |-> <<>>,
                 result |-> <<>>, i |-> 1, exc |-> "none"]
    /\ UNCHANGED <<db, ret>>

\* with notmuch2.Database(mode=READ_ONLY) as db: the open succeeds or raises
ShowOpen ==
    /\ op = "show_thread" /\ pc = "open"
    /\ \/ /\ db' = [open |-> db.open + 1, opened |-> db.opened + 1,
                    calls |-> db.calls + 1]
          /\ pc' = "retrieve"
          /\ UNCHANGED local
       \/ /\ db' = [db EXCEPT !.calls = db.calls + 1]
          /\ pc' = "except"
          /\ local' = [local EXCEPT !.exc = "NotmuchError"]
    /\ UNCHANGED <<op, arg, ret>>

\* messages = retrieve_thread(db, tid, all_messages)
ShowRetrieve ==
    /\ op = "show_thread" /\ pc = "retrieve"
    /\ \/ \E lookup \in Failures :
             local' = [local EXCEPT
                          !.lookup = lookup,
                          !.messages = retrieve_thread(lookup, arg.all_messages)]
       \/ \E n \in 1..MaxMsgs :
             \E pr \in [2..n -> 0..(n - 1)], mg \in [2..n -> ThreadMessages] :
                /\ \A m \in 2..n : pr[m] < m
                /\ local' = [local EXCEPT
                                !.lookup = Found(Thread(n, pr, mg)),
                                !.messages = retrieve_thread(Found(Thread(n, pr, mg)),
                                                             arg.all_messages)]
    /\ db' = [db EXCEPT !.calls = db.calls + 1]
    /\ pc' = "render"
    /\ UNCHANGED <<op, arg, ret>>

\* for msg in messages: result.append(get_message_info(msg)); reading or
\* rendering the message may raise
ShowRender ==
    /\ op = "show_thread" /\ pc = "render"
    /\ local.i <= Len(local.messages)
    /\ \/ /\ local' = [local EXCEPT
                          !.result = Append(local.result,
                                            get_message_info(local.messages[local.i])),
                          !.i = local.i + 1]
          /\ pc' = "render"
       \/ /\ local' = [local EXCEPT !.exc = "OSError"]
          /\ pc' = "with_exit"
    /\ UNCHANGED <<op, arg, db, ret>>

\* the loop is over
ShowRenderEnd ==
    /\ op = "show_thread" /\ pc = "render"
    /\ local.i > Len(local.messages)
    /\ pc' = "with_exit"
    /\ UNCHANGED <<op, arg, db, local, ret>>

\* the with block is left, normally or by the exception
ShowWithExit ==
    /\ op = "show_thread" /\ pc = "with_exit"
    /\ db' = with_exit(db)
    /\ pc' = IF local.exc = "none" THEN "return" ELSE "except"
    /\ UNCHANGED <<op, arg, local, ret>>

ShowExcept ==
    /\ op = "show_thread" /\ pc = "except"
    /\ ret' = show_thread_except(local.exc)
    /\ pc' = "done"
    /\ UNCHANGED <<op, arg, db, local>>

\* return '\n'.join(result)
ShowReturn ==
    /\ op = "show_thread" /\ pc = "return"
    /\ ret' = Return(join_lines(local.result))
    /\ pc' = "done"
    /\ UNCHANGED <<op, arg, db, local>>

NextShow ==
    \/ ShowCall \/ ShowOpen \/ ShowRetrieve \/ ShowRender \/ ShowRenderEnd
    \/ ShowWithExit \/ ShowExcept \/ ShowReturn \/ Finish

SpecShow == Init /\ [][NextShow]_vars

--------------------------------------------------------------------------
(* The series finder: do_find_threads, behind find_threads *)

\* a Python value that may be None
PyNone == [is_none |-> TRUE, value |-> <<>>]

PyStr(v) == [is_none |-> FALSE, value |-> v]

Filters ==
    { PyNone, PyStr(<<>>), PyStr(<<" ">>), PyStr(<<"\t"," ","\n">>),
      PyStr(<<"f","r","o","m",":","a">>), PyStr(<<" ","t","a","g",":","x"," ">>) }

\* the validation with the whitespace test left out
filter_is_blank_no_strip(notmuch_filter) ==
    notmuch_filter.is_none \/ notmuch_filter.value = <<>>

\* not notmuch_filter or not notmuch_filter.strip()
filter_is_blank(notmuch_filter) ==
    \/ notmuch_filter.is_none
    \/ notmuch_filter.value = <<>>
    \/ strip(notmuch_filter.value) = <<>>

\* is_patch and not is_reply of do_find_threads
is_series_message(subject) ==
    LET is_patch_ == contains(upper(subject), <<"P","A","T","C","H">>)
        is_reply == \E prefix \in { <<"R","E",":">>, <<"R",":">> } :
                        startswith(upper(subject), prefix)
    IN  is_patch_ /\ ~is_reply

\* seen_threads marked by every message, qualifying or not
seen_after_always(seen_threads, thread_id, qualifies) ==
    seen_threads \cup {thread_id}

\* seen_threads.add(thread_id), reached only in the qualifying branch
seen_after(seen_threads, thread_id, qualifies) ==
    IF qualifies THEN seen_threads \cup {thread_id} ELSE seen_threads

ThreadIds == { "t1", "t2" }

StreamSubjects ==
    { Hdr(<<"[","P","A","T","C","H","]"," ","a">>), Hdr(<<"r","f","c"," ","p","a","t","c","h"," ","b">>), Hdr(<<"R","e",":"," ","[","P","A","T","C","H","]"," ","a">>),
      Hdr(<<"r",":"," ","p","a","t","c","h">>), Hdr(<<"h","e","l","l","o">>), NoHdr }

\* Thread.subject of the thread looked up for a record
ThreadSubjects == { <<>>, <<"s","e","r","i","e","s">> }

\* what next(iter(db.threads(...))) may do: give the thread, raise
\* StopIteration, or fail in the gateway
ThreadAnswers ==
    { [kind |-> "thread", subject |-> ts] : ts \in ThreadSubjects }
    \cup { [kind |-> "StopIteration", subject |-> <<>>],
           [kind |-> "NotmuchError", subject |-> <<>>] }

\* find_threads(notmuch_filter)
FindCall ==
    /\ pc = "idle"
    /\ \E f \in Filters : arg' = [notmuch_filter |-> f]
    /\ op' = "find_threads"
    /\ pc' = "validate"
    /\ local' = [messages |-> <<>>, i |-> 1, series_threads |-> <<>>,
                 seen_threads |-> {}, exc |-> "none"]
    /\ UNCHANGED <<db, ret>>

\* if not notmuch_filter or not notmuch_filter.strip(): raise ValueError
FindValidate ==
    /\ op = "find_threads" /\ pc = "validate"
    /\ IF filter_is_blank(arg.notmuch_filter)
       THEN /\ ret' = Raise("ValueError")
            /\ pc' = "done"
       ELSE /\ ret' = ret
            /\ pc' = "open"
    /\ UNCHANGED <<op, arg, db, local>>

\* with notmuch2.Database(mode=READ_ONLY) as db: the open succeeds or raises
FindOpen ==
    /\ op = "find_threads" /\ pc = "open"
    /\ \/ /\ db' = [open |-> db.open + 1, opened |-> db.opened + 1,
                    calls |-> db.calls + 1]
          /\ pc' = "query"
          /\ UNCHANGED local
       \/ /\ db' = [db EXCEPT !.calls = db.calls + 1]
          /\ pc' = "except"
          /\ local' = [local EXCEPT !.exc = "NotmuchError"]
    /\ UNCHANGED <<op, arg, ret>>

\* messages = db.messages(notmuch_filter): the matched messages, or an error
FindQuery ==
    /\ op = "find_threads" /\ pc = "query"
    /\ db' = [db EXCEPT !.calls = db.calls + 1]
    /\ \/ /\ \E k \in 0..MaxStream :
                \E tids \in [1..k -> ThreadIds], sjs \in [1..k -> StreamSubjects] :
                   local' = [local EXCEPT
                                !.messages = [j \in 1..k |->
                                                [threadid |-> tids[j],
                                                 subject |-> sjs[j]]]]
          /\ pc' = "loop"
       \/ /\ local' = [local EXCEPT !.exc = "NotmuchError"]
          /\ pc' = "with_exit"
    /\ UNCHANGED <<op, arg, ret>>

\* one iteration of  for message in messages
FindLoop ==
    /\ op = "find_threads" /\ pc = "loop"
    /\ local.i <= Len(local.messages)
    /\ LET message == local.messages[local.i]
           thread_id == message.threadid
       IN  IF thread_id \in local.seen_threads
           THEN \* continue
                /\ local' = [local EXCEPT !.i = local.i + 1]
                /\ pc' = "loop"
                /\ db' = db
           ELSE IF ~message.subject.present
           THEN \* message.header('subject') raises LookupError
                /\ local' = [local EXCEPT !.exc = "LookupError"]
                /\ pc' = "with_exit"
                /\ db' = db
           ELSE LET subject == message.subject.value
                    qualifies == is_series_message(subject)
                IN  IF ~qualifies
                    THEN /\ local' = [local EXCEPT
                                         !.seen_threads =
                                             seen_after(local.seen_threads, thread_id,
                                                        qualifies),
                                         !.i = local.i + 1]
                         /\ pc' = "loop"
                         /\ db' = db
                    ELSE \* thread_query = db.threads(f"thread:{thread_id}")
                         /\ db' = [db EXCEPT !.calls = db.calls + 1]
                         /\ \E answer \in ThreadAnswers :
                               IF answer.kind = "NotmuchError"
                               THEN /\ local' = [local EXCEPT !.exc = "NotmuchError"]
                                    /\ pc' = "with_exit"
                               ELSE /\ local' = [local EXCEPT
                                        !.series_threads =
                                            Append(local.series_threads,
                                                   <<thread_id,
                                                     IF answer.kind = "thread"
                                                        /\ answer.subject # <<>>
                                                     THEN answer.subject
                                                     ELSE subject>>),
                                        !.seen_threads =
                                            seen_after(local.seen_threads, thread_id,
                                                       qualifies),
                                        !.i = local.i + 1]
                                    /\ pc' = "loop"
    /\ UNCHANGED <<op, arg, ret>>

\* the stream is exhausted
FindLoopEnd ==
    /\ op = "find_threads" /\ pc = "loop"
    /\ local.i > Len(local.messages)
    /\ pc' = "with_exit"
    /\ UNCHANGED <<op, arg, db, local, ret>>

\* the with block is left, normally or by the exception
FindWithExit ==
    /\ op = "find_threads" /\ pc = "with_exit"
    /\ db' = with_exit(db)
    /\ pc' = IF local.exc = "none" THEN "return" ELSE "except"
    /\ UNCHANGED <<op, arg, local, ret>>

\* except notmuch2.NotmuchError / except Exception: raise RuntimeError(...)
FindExcept ==
    /\ op = "find_threads" /\ pc = "except"
    /\ ret' = Raise("RuntimeError")
    /\ pc' = "done"
    /\ UNCHANGED <<op, arg, db, local>>

\* return series_threads
FindReturn ==
    /\ op = "find_threads" /\ pc = "return"
    /\ ret' = Return(local.series_threads)
    /\ pc' = "done"
    /\ UNCHANGED <<op, arg, db, local>>

NextFind ==
    \/ FindCall \/ FindValidate \/ FindOpen \/ FindQuery \/ FindLoop
    \/ FindLoopEnd \/ FindWithExit \/ FindExcept \/ FindReturn \/ Finish

SpecFind == Init /\ [][NextFind]_vars

--------------------------------------------------------------------------
(* The body extractor: get_email_body on a parsed message.  A message is a *)
(* tree over the parts 1..n with the message itself as part 1; a part with *)
(* sub-parts is multipart (its payload is the list of them), a part        *)
(* without is a leaf with a content type, a Content-Disposition header     *)
(* ('' when absent), a declared charset ('' when none) and a payload.      *)

TextPlain == <<"t","e","x","t","/","p","l","a","i","n">>

LeafKinds ==
    { [content_type |-> TextPlain, disposition |-> <<>>],
      [content_type |-> TextPlain,
       disposition |-> <<"a","t","t","a","c","h","m","e","n","t",";"," ","f","i","l","e","n","a","m","e","=","a",".","t","x","t">>],
      [content_type |-> TextPlain,
       disposition |-> <<"i","n","l","i","n","e",";"," ","f","i","l","e","n","a","m","e","=","a","t","t","a","c","h","m","e","n","t",".","t","x","t">>],
      [content_type |-> TextPlain,
       disposition |-> <<"A","T","T","A","C","H","M","E","N","T",";"," ","f","i","l","e","n","a","m","e","=","a",".","t","x","t">>],
      [content_type |-> <<"t","e","x","t","/","h","t","m","l">>, disposition |-> <<>>] }

\* declared charsets: none, and one Python has no codec for
Charsets == { <<>>, <<"x","-","u","n","k","n","o","w","n">> }

\* the codecs bytes.decode knows, among the charsets of the model
KnownCodecs == { <<"u","t","f","-","8">> }

\* the payload of leaf p: b"b<p>" followed by a byte that is not UTF-8
payload_bytes(p) == <<"b", Digit[p], "\\xff">>

Email(n, pr, kinds, charsets) ==
    [n |-> n,
     parent |-> [p \in 1..n |-> IF p = 1 THEN 0 ELSE pr[p]],
     kind |-> kinds,
     charset |-> charsets]

\* msg.get_payload() of a multipart part: its sub-parts, in order
subparts(msg, p) == Ascending({q \in 1..msg.n : msg.parent[q] = p})

is_multipart(msg, p) == \E q \in 1..msg.n : msg.parent[q] = p

get_content_type(msg, p) ==
    IF is_multipart(msg, p) THEN <<"m","u","l","t","i","p","a","r","t","/","m","i","x","e","d">> ELSE msg.kind[p].content_type

\* part.get("Content-Disposition", "")
get_disposition(msg, p) ==
    IF is_multipart(msg, p) THEN <<>> ELSE msg.kind[p].disposition

\* part.get_content_charset() or "utf-8"
charset_or_default(msg, p) ==
    IF is_multipart(msg, p) \/ msg.charset[p] = <<>> THEN <<"u","t","f","-","8">>
    ELSE msg.charset[p]

\* msg.walk(): the part, then the walk of each sub-part, depth first
RECURSIVE walk(_, _)
walk(msg, p) ==
    LET subs == subparts(msg, p)
        RECURSIVE each(_)
        each(i) == IF i > Len(subs) THEN <<>>
                   ELSE walk(msg, subs[i]) \o each(i + 1)
    IN  <<p>> \o each(1)

\* bytes.decode(charset, errors="replace"): a byte that does not decode
\* becomes U+FFFD; an unknown charset raises LookupError
decode(bytes, charset) ==
    IF charset \notin KnownCodecs THEN Raise("LookupError")
    ELSE Return([i \in 1..Len(bytes) |->
                    IF bytes[i] = "\\xff" THEN "\\ufffd" ELSE bytes[i]])

\* part.get_payload(decode=True).decode(charset, errors="replace");
\* get_payload(decode=True) of a multipart part is None
payload_text(msg, p) ==
    IF is_multipart(msg, p) THEN Raise("AttributeError")
    ELSE decode(payload_bytes(p), charset_or_default(msg, p))

\* content_type == "text/plain" and "attachment" not in content_disposition
part_qualifies(msg, p) ==
    /\ get_content_type(msg, p) = TextPlain
    /\ ~contains(get_disposition(msg, p), <<"a","t","t","a","c","h","m","e","n","t">>)

get_email_body(msg) ==
    IF is_multipart(msg, 1)
    THEN LET parts == walk(msg, 1)
             hits == {i \in 1..Len(parts) : part_qualifies(msg, parts[i])}
         IN  IF hits # {}
             THEN payload_text(msg, parts[CHOOSE i \in hits : \A j \in hits : i <= j])
             ELSE \* first_part = msg.get_payload(0)
                  payload_text(msg, subparts(msg, 1)[1])
    ELSE payload_text(msg, 1)

\* get_email_body(msg) on a parsed message
BodyCall ==
    /\ pc = "idle"
    /\ \E n \in 1..MaxParts :
          \E pr \in [2..n -> 1..n], kinds \in [1..n -> LeafKinds],
             charsets \in [1..n -> Charsets] :
             /\ \A p \in 2..n : pr[p] < p
             \* a multipart part carries no leaf attributes of its own
             /\ \A p \in 1..n :
                   (\E q \in 2..n : pr[q] = p)
                      => /\ kinds[p] = [content_type |-> TextPlain,
                                        disposition |-> <<>>]
                         /\ charsets[p] = <<>>
             /\ arg' = [msg |-> Email(n, pr, kinds, charsets)]
             /\ ret' = get_email_body(Email(n, pr, kinds, charsets))
    /\ op' = "get_email_body"
    /\ pc' = "done"
    /\ UNCHANGED <<db, local>>

NextBody == BodyCall \/ Finish

SpecBody == Init /\ [][NextBody]_vars

--------------------------------------------------------------------------
(* The whole program *)

Next ==
    \/ IsPatchCall
    \/ BodyCall
    \/ ShowCall \/ ShowOpen \/ ShowRetrieve \/ ShowRender \/ ShowRenderEnd
    \/ ShowWithExit \/ ShowExcept \/ ShowReturn
    \/ FindCall \/ FindValidate \/ FindOpen \/ FindQuery \/ FindLoop
    \/ FindLoopEnd \/ FindWithExit \/ FindExcept \/ FindReturn
    \/ Finish

Spec == Init /\ [][Next]_vars

--------------------------------------------------------------------------
(* Vocabulary of the properties, stated apart from the code's operators *)

\* s without its leading characters of the set cs
RECURSIVE DropLeading(_, _)
DropLeading(s, cs) ==
    IF s # <<>> /\ Head(s) \in cs THEN DropLeading(Tail(s), cs) ELSE s

\* s without its trailing characters of the set cs
RECURSIVE DropTrailing(_, _)
DropTrailing(s, cs) ==
    IF s # <<>> /\ s[Len(s)] \in cs
    THEN DropTrailing(SubSeq(s, 1, Len(s) - 1), cs) ELSE s

\* a header value with surrounding whitespace, then angle brackets, removed
Normalized(v) ==
    DropTrailing(DropLeading(DropTrailing(DropLeading(v, Whitespace), Whitespace),
                             {"<", ">"}),
                 {"<", ">"})

HeaderText(h) == IF h.present THEN h.value ELSE <<>>

\* the subject starts with re:, r:, aw:, fw: or fwd:, in any case
StartsWithReplyPrefix(subject) ==
    \E pre \in { <<"r","e",":">>, <<"r",":">>, <<"a","w",":">>, <<"f","w",":">>, <<"f","w","d",":">> } :
        /\ Len(subject) >= Len(pre)
        /\ \A i \in 1..Len(pre) : lower_char(subject[i]) = pre[i]

\* PATCH, in any case, stands at positions i..i+4 of s
PatchAt(s, i) ==
    /\ i >= 1 /\ i + 4 <= Len(s)
    /\ \A j \in 0..4 : lower_char(s[i + j]) = <<"p","a","t","c","h">>[j + 1]

\* the subject holds a tag [ ... ] with no bracket inside it and PATCH in it
HasPatchTag(subject) ==
    \E a \in 1..Len(subject), b \in 1..Len(subject) :
        /\ a < b /\ subject[a] = "[" /\ subject[b] = "]"
        /\ \A i \in (a + 1)..(b - 1) : subject[i] \notin {"[", "]"}
        /\ \E i \in (a + 1)..(b - 5) : PatchAt(subject, i)

\* after leading whitespace the subject opens with [, and PATCH follows
\* that bracket with a ] somewhere after it
OpensWithPatchTag(subject) ==
    LET t == DropLeading(subject, Whitespace)
    IN  /\ t # <<>> /\ Head(t) = "["
        /\ \E i \in 2..Len(t), b \in 2..Len(t) :
              PatchAt(t, i) /\ b >= i + 5 /\ t[b] = "]"

\* a is a proper ancestor of m in the forest t
RECURSIVE IsAncestor(_, _, _)
IsAncestor(t, a, m) ==
    /\ t.parent[m] # 0
    /\ (t.parent[m] = a \/ IsAncestor(t, a, t.parent[m]))

\* the top-level message m descends from
RECURSIVE Root(_, _)
Root(t, m) == IF t.parent[m] = 0 THEN m ELSE Root(t, t.parent[m])

Depth(t, m) == Cardinality({a \in 1..t.n : IsAncestor(t, a, m)})

\* a comes before b in the depth-first pre-order of t: a is an ancestor of
\* b, or where their lines of descent part a's side is the earlier sibling
PreorderBefore(t, a, b) ==
    /\ a # b
    /\ \/ IsAncestor(t, a, b)
       \/ /\ ~IsAncestor(t, b, a)
          /\ \E x \in 1..t.n, y \in 1..t.n :
                /\ x = a \/ IsAncestor(t, x, a)
                /\ y = b \/ IsAncestor(t, y, b)
                /\ t.parent[x] = t.parent[y]
                /\ x < y

\* seq lists exactly the members of S, each once, in depth-first pre-order
IsPreorderListing(seq, t, S) ==
    /\ Len(seq) = Cardinality(S)
    /\ { seq[i] : i \in 1..Len(seq) } = S
    /\ \A i \in 1..Len(seq), j \in 1..Len(seq) :
          i < j => PreorderBefore(t, seq[i], seq[j])

Retrieved == op = "show_thread" /\ local.lookup.kind = "thread"

--------------------------------------------------------------------------
(* C1 *)

\* C1 as stated: in PATCHES_AND_COVER mode the result holds the top-level
\* messages and exactly the direct replies of a top-level message that
\* is_patch accepts against that message's id; nothing deeper is included
C1_OnlyDirectReplies ==
    (Retrieved /\ ~arg.all_messages) =>
        LET t == local.lookup.thread
        IN  { local.messages[i] : i \in 1..Len(local.messages) }
            = { m \in 1..t.n :
                  \/ t.parent[m] = 0
                  \/ /\ t.parent[m] # 0 /\ t.parent[t.parent[m]] = 0
                     /\ is_patch(t.msg[m], messageid(t.parent[m])) }

\* C1 amended: in PATCHES_AND_COVER mode the result lists, once each and
\* in depth-first pre-order, the top-level messages and exactly the
\* descendants, at any depth, that is_patch accepts against the id of the
\* top-level message they descend from
C1_PatchesAtAnyDepth ==
    (Retrieved /\ ~arg.all_messages) =>
        LET t == local.lookup.thread
        IN  IsPreorderListing(local.messages, t,
                { m \in 1..t.n :
                    \/ t.parent[m] = 0
                    \/ is_patch(t.msg[m], messageid(Root(t, m))) })

\* C1 witness: a PATCHES_AND_COVER result that leaves a direct reply out
\* and includes a reply of that reply
C1_Witness ==
    /\ Retrieved /\ ~arg.all_messages /\ pc = "render"
    /\ LET t == local.lookup.thread
           inc == { local.messages[i] : i \in 1..Len(local.messages) }
       IN  \E m \in 1..t.n :
              /\ Depth(t, m) = 2 /\ m \in inc
              /\ t.parent[m] \notin inc

--------------------------------------------------------------------------
(* C2 *)

\* C2: in ALL mode the result lists every message of the thread exactly
\* once (its length is the number of messages), each message before all
\* its descendants and the replies of a message in the index's order:
\* the depth-first pre-order
C2_AllModePreorder ==
    (Retrieved /\ arg.all_messages) =>
        LET t == local.lookup.thread
        IN  /\ Len(local.messages) = t.n
            /\ IsPreorderListing(local.messages, t, 1..t.n)

\* C2 witness: an ALL result over a thread where a message has two replies
\* and the earlier of them has a reply of its own
C2_Witness ==
    /\ Retrieved /\ arg.all_messages /\ pc = "render"
    /\ LET t == local.lookup.thread
       IN  /\ Len(local.messages) = t.n
           /\ \E a \in 1..t.n, b \in 1..t.n, c \in 1..t.n :
                 /\ a < b /\ t.parent[a] # 0 /\ t.parent[a] = t.parent[b]
                 /\ t.parent[c] = a

--------------------------------------------------------------------------
(* C3 *)

IsPatchDone == op = "is_patch" /\ pc = "done"

\* C3: is_patch is true only if the normalized In-Reply-To equals the
\* cover-letter id and the subject does not start with a reply prefix
C3_NecessaryConditions ==
    (IsPatchDone /\ ret.value) =>
        /\ Normalized(HeaderText(arg.message.in_reply_to)) = arg.toplevel_message_id
        /\ ~StartsWithReplyPrefix(HeaderText(arg.message.subject))

\* C3 witness: a reply-prefixed subject with a [PATCH] tag and a matching
\* In-Reply-To is classified as not a patch
C3_Witness ==
    /\ IsPatchDone /\ ~ret.value
    /\ Normalized(HeaderText(arg.message.in_reply_to)) = arg.toplevel_message_id
    /\ StartsWithReplyPrefix(HeaderText(arg.message.subject))
    /\ HasPatchTag(HeaderText(arg.message.subject))

--------------------------------------------------------------------------
(* C4 *)

PassesEarlierChecks ==
    /\ IsPatchDone
    /\ Normalized(HeaderText(arg.message.in_reply_to)) = arg.toplevel_message_id
    /\ ~reply_match(HeaderText(arg.message.subject))

--------------------------------------------------------------------------
(* C5 *)

\* the subject holds PATCH in any case and does not start with RE: or R:
Qualifying(subject) ==
    /\ \E i \in 1..Len(subject) : PatchAt(subject, i)
    /\ ~\E pre \in { <<"r","e",":">>, <<"r",":">> } :
           /\ Len(subject) >= Len(pre)
           /\ \A i \in 1..Len(pre) : lower_char(subject[i]) = pre[i]

\* the positions of the stream holding a qualifying message of thread tid
QualifyingAt(stream, tid) ==
    { j \in 1..Len(stream) :
        /\ stream[j].threadid = tid
        /\ stream[j].subject.present
        /\ Qualifying(stream[j].subject.value) }

FirstOf(S) == CHOOSE j \in S : \A k \in S : j <= k

FindReturned == op = "find_threads" /\ pc = "done" /\ ret.kind = "return"

\* C5: the records returned hold each thread id at most once; a thread has
\* a record exactly when one of its matched messages qualifies, whatever
\* non-qualifying messages of it came earlier; and the records follow the
\* order of each thread's first qualifying message in the stream
C5_OneRecordPerSeries ==
    FindReturned =>
        LET recs == ret.value
            stream == local.messages
        IN  /\ \A i \in 1..Len(recs), j \in 1..Len(recs) :
                  i # j => recs[i][1] # recs[j][1]
            /\ { recs[i][1] : i \in 1..Len(recs) }
               = { tid \in ThreadIds : QualifyingAt(stream, tid) # {} }
            /\ \A i \in 1..Len(recs), j \in 1..Len(recs) :
                  i < j => FirstOf(QualifyingAt(stream, recs[i][1]))
                           < FirstOf(QualifyingAt(stream, recs[j][1]))

\* C5 witness: two records are returned, and the thread of the first was
\* met earlier in the stream through a message that does not qualify
C5_Witness ==
    /\ FindReturned
    /\ Len(ret.value) = 2
    /\ local.messages[1].threadid = ret.value[1][1]
    /\ 1 \notin QualifyingAt(local.messages, ret.value[1][1])

--------------------------------------------------------------------------
(* C6 *)

ToolRunning == op \in { "show_thread", "find_threads" }

\* C6 as stated: every tool invocation opens exactly one connection, and
\* it is closed before the invocation returns or raises
C6_ExactlyOneConnection ==
    ToolRunning =>
        /\ pc \in { "return", "except", "done" } => db.open = 0
        /\ pc = "done" => db.opened = 1

\* C6 amended: a tool invocation opens at most one connection: exactly one
\* unless find series rejects a blank filter before any gateway access or
\* the open itself fails; a connection that was opened is closed before the
\* invocation returns or raises, on every exit path
C6_AtMostOneConnectionClosed ==
    ToolRunning =>
        /\ db.open <= db.opened /\ db.opened <= 1
        /\ pc \in { "return", "except", "done" } => db.open = 0
        /\ pc = "done" =>
              \/ db.opened = 1
              \/ db.opened = 0 /\ db.calls = 0 /\ ret = Raise("ValueError")
              \/ db.opened = 0 /\ db.calls = 1 /\ ret.kind = "raise"
              \/ db.opened = 0 /\ db.calls = 1 /\ op = "show_thread"
                 /\ ret.kind = "return" /\ ret.value # <<>>

\* C6 witness: an invocation that opened its connection and failed while
\* rendering a message has ended with the connection closed
C6_Witness ==
    /\ op = "show_thread" /\ pc = "done"
    /\ local.exc = "OSError"
    /\ db.opened = 1 /\ db.open = 0

--------------------------------------------------------------------------
(* C7 *)

\* C7: the render-thread operation always ends by returning a string, never
\* by raising, and for a thread id that matches no thread the string is
\* empty
C7_ShowNeverRaises ==
    (op = "show_thread" /\ pc = "done") =>
        /\ ret.kind = "return"
        /\ local.lookup.kind = "none" => ret.value = <<>>

\* C7 witness: the open of the index failed and the operation returned a
\* string
C7_Witness ==
    /\ op = "show_thread" /\ pc = "done"
    /\ local.exc = "NotmuchError" /\ db.opened = 0
    /\ ret.kind = "return" /\ ret.value # <<>>

--------------------------------------------------------------------------
(* C8 *)

\* C8: get_email_body returns a string for every parsed message, whatever
\* its structure and declared charsets; it never raises
C8_BodyNeverRaises ==
    (op = "get_email_body" /\ pc = "done") => ret.kind = "return"

--------------------------------------------------------------------------
(* C9 *)

\* the disposition type of a Content-Disposition value: the text before the
\* first ";", without surrounding whitespace, in lower case
DispositionType(d) ==
    LET semis == { i \in 1..Len(d) : d[i] = ";" }
        cut == IF semis = {} THEN Len(d) ELSE FirstOf(semis) - 1
        t == DropTrailing(DropLeading(SubSeq(d, 1, cut), Whitespace), Whitespace)
    IN  [i \in 1..Len(t) |-> lower_char(t[i])]

\* the part is a text/plain leaf
PlainPart(msg, p) ==
    /\ ~\E q \in 1..msg.n : msg.parent[q] = p
    /\ msg.kind[p].content_type = <<"t","e","x","t","/","p","l","a","i","n">>

MarkedAttachment(msg, p) ==
    DispositionType(msg.kind[p].disposition) = <<"a","t","t","a","c","h","m","e","n","t">>

\* the text of leaf p once decoded
ContentOf(p) == <<"b", Digit[p], "\\ufffd">>

\* C9: when get_email_body returns for a multipart message holding a
\* text/plain part not marked as an attachment, it returns the content of
\* the first such part in depth-first order, so never the content of a
\* text/plain attachment
C9_FirstPlainNonAttachment ==
    (op = "get_email_body" /\ pc = "done" /\ ret.kind = "return") =>
        LET msg == arg.msg
            good == { p \in 1..msg.n :
                        PlainPart(msg, p) /\ ~MarkedAttachment(msg, p) }
        IN  ((\E q \in 1..msg.n : msg.parent[q] = 1) /\ good # {}) =>
                \E p \in good :
                    /\ \A q \in good \ {p} : PreorderBefore(msg, p, q)
                    /\ ret.value = ContentOf(p)

--------------------------------------------------------------------------
(* C10 *)

\* the filter is missing, empty or made of whitespace only
BlankFilter(f) ==
    f.is_none \/ \A i \in 1..Len(f.value) : f.value[i] \in Whitespace

\* C10: with a missing, empty or whitespace-only filter do_find_threads
\* raises ValueError, and no other outcome of it is a ValueError; up to
\* then no connection was opened and no gateway call was made
C10_BlankFilterUsageError ==
    (op = "find_threads") =>
        /\ BlankFilter(arg.notmuch_filter) =>
              /\ db.calls = 0 /\ db.opened = 0
              /\ pc \in { "validate", "done" }
              /\ pc = "done" => ret = Raise("ValueError")
        /\ (pc = "done" /\ ~BlankFilter(arg.notmuch_filter)) =>
              ret # Raise("ValueError")

\* C10 witness: a filter of whitespace only was rejected with ValueError
\* and the gateway call counter is zero
C10_Witness ==
    /\ op = "find_threads" /\ pc = "done"
    /\ ~arg.notmuch_filter.is_none /\ arg.notmuch_filter.value # <<>>
    /\ BlankFilter(arg.notmuch_filter)
    /\ ret = Raise("ValueError") /\ db.calls = 0


--------------------------------------------------------------------------
(* C11 *)

\* the stream of matched messages holds one whose Subject header is absent
AbsentSubjectMatched ==
    \E j \in 1..Len(local.messages) : ~local.messages[j].subject.present

\* C11: when a matched message has no Subject header and the gateway did
\* not fail, do_find_threads does not raise: the message is skipped as not
\* qualifying and the records of the threads with a qualifying message are
\* returned
C11_AbsentSubjectSkipped ==
    (/\ op = "find_threads" /\ pc = "done"
     /\ AbsentSubjectMatched
     /\ local.exc # "NotmuchError") =>
        /\ ret.kind = "return"
        /\ { ret.value[i][1] : i \in 1..Len(ret.value) }
           = { tid \in ThreadIds : QualifyingAt(local.messages, tid) # {} }

==========================================================================
